---------------------------- MODULE Spec2Model ----------------------------
(***************************************************************************)
(* State-machine model of src/code.py: the GIF player's main loop, the     *)
(* debounced button source, one playback session, the interstitial and     *)
(* the clock mode.                                                         *)
(*                                                                         *)
(* Time.  One model time step is a quarter of the program's time unit, so  *)
(* 0.5 is 2, 1.0 is 4 and 2.0 is 8.  The program only ever uses            *)
(* differences of time.monotonic() readings (lines 178-179, 212, 279), so  *)
(* the clock is kept re-based: the current reading is always Now, and      *)
(* when d steps of time pass every stored timestamp moves d steps into the *)
(* past, stopping at 0, where each comparison made against it is already   *)
(* decided (Horizon is at least every threshold it is compared with).      *)
(***************************************************************************)
EXTENDS Integers, Sequences, FiniteSets, TLC

VARIABLES
    pc,                 \* position of the single thread of control
    gif_count,          \* len(gif_files)
    current_mode,       \* "gif" | "clock"
    current_gif_index,
    last_button_press,  \* timestamp of the last accepted event (re-based)
    last_state,         \* PhysicalButton.last_state of each button
    result,             \* the main loop's `result` (last value play_gif returned)
    root_group,         \* display.root_group: "main_group" | "clock_group"
    main_group,         \* what main_group holds
    odg,                \* play_gif's decoder: "none" | "failed" (open raised) | "open" (not deinit()ed)
    frame,              \* play_gif: number of the frame on screen
    next_delay,         \* play_gif: next_delay
    start_time,         \* play_gif: start_time (re-based)
    time_label,         \* time_label.text, as a sequence of characters
    date_label,         \* date_label.text, as a sequence of characters
    rendered,           \* history: the clock reading the labels were last set from
    poll,               \* history: what the last step's button_pressed() call did
    since_accept,       \* history: time since the last accepted event
    accept_gap,         \* history: time between the last two accepted events
    frame_age,          \* history: time since the current frame was requested
    round_trip,         \* history: index at the last gif -> clock switch, or -1
    came_from,          \* history: index before the assignment just made to it, or -1
    shown_for,          \* history: how long the interstitial just shown took
    wrapped,            \* history: the session has played its last frame
    seen,               \* history: each button's level at the last poll that read it
    went_low,           \* history: buttons pressed while no poll read them
    nav_start,          \* history: index before the navigations of nav_log
    nav_log             \* history: navigations applied since nav_start

vars == <<pc, gif_count, current_mode, current_gif_index,
          last_button_press, last_state, result, root_group, main_group,
          odg, frame, next_delay, start_time, time_label, date_label,
          rendered, poll,
          since_accept, accept_gap, frame_age, round_trip, came_from,
          shown_for, wrapped, seen, went_low, nav_start, nav_log>>

----------------------------------------------------------------------------
(* Bounds of the model *)

MaxAssets == 3
Horizon == 3
MaxStep == 1
MaxNav == 4

(* Program constants, in quarter time units *)

BUTTON_COOLDOWN == 2
INTERSTITIAL_TIME == 8
CLOCK_SLEEP == 4
ERROR_SLEEP == 8
STARTUP_SLEEP == 4

Now == Horizon

Buttons == {"next", "previous", "mode"}
Levels == [Buttons -> BOOLEAN]
ReadFail == {"none", "next", "previous", "mode"}

\* per-frame delays the decoder reports for its frames, in order; it loops
FrameDelays == <<2, 1, 3>>

AllHigh == [b \in Buttons |-> TRUE]

NoPoll == [kind |-> "nopoll", v |-> AllHigh, edges |-> {}, event |-> "none"]

----------------------------------------------------------------------------
(* Time *)

Past(t, d) == IF t > d THEN t - d ELSE 0

Older(a, d) == IF a + d < Horizon THEN a + d ELSE Horizon

----------------------------------------------------------------------------
(* Debounced button source *)

\* variant: a LOW level counts as a press, whatever the level before
PressedWhileLow(last, current) == current = FALSE

\* PhysicalButton.pressed: falling edge of a pulled-up input
Pressed(last, current) == (last = TRUE) /\ (current = FALSE)

\* the order in which button_pressed reads the buttons
ReadPos(b) == CASE b = "next" -> 1 [] b = "previous" -> 2 [] b = "mode" -> 3
                [] OTHER -> 4

\* last_state of every button after a poll in which the read of button rf
\* raised ("none": no read raised): the buttons read before it were sampled
Sampled(ls, v, rf) ==
    [b \in Buttons |-> IF ReadPos(b) < ReadPos(rf) THEN v[b] ELSE ls[b]]

\* variant: a cooldown one time step short
CooldownActiveEarly(current_time, last) ==
    current_time - last < BUTTON_COOLDOWN - 1

CooldownActive(current_time, last) == current_time - last < BUTTON_COOLDOWN

\* variant: the chain tests next before mode
DecideNextFirst(next_pressed, prev_pressed, mode_pressed) ==
    IF next_pressed /\ ~prev_pressed THEN "next"
    ELSE IF mode_pressed THEN "mode"
    ELSE IF prev_pressed /\ ~next_pressed THEN "previous"
    ELSE "none"

Decide(next_pressed, prev_pressed, mode_pressed) ==
    IF mode_pressed THEN "mode"
    ELSE IF next_pressed /\ ~prev_pressed THEN "next"
    ELSE IF prev_pressed /\ ~next_pressed THEN "previous"
    ELSE "none"

\* variant: a poll inside the cooldown restarts it
ButtonPressedExtendsCooldown(ls, lbp, v, rf) ==
    IF CooldownActive(Now, lbp)
    THEN [event |-> "none", ls |-> ls, lbp |-> Now, kind |-> "cooldown"]
    ELSE IF rf # "none"
    THEN [event |-> "none", ls |-> Sampled(ls, v, rf), lbp |-> lbp,
          kind |-> "readerror"]
    ELSE LET ev == Decide(Pressed(ls["next"], v["next"]),
                          Pressed(ls["previous"], v["previous"]),
                          Pressed(ls["mode"], v["mode"]))
         IN [event |-> ev, ls |-> v,
             lbp |-> IF ev # "none" THEN Now ELSE lbp, kind |-> "sampled"]

\* variant: a failed read restarts the cooldown
ButtonPressedStampsOnError(ls, lbp, v, rf) ==
    IF CooldownActive(Now, lbp)
    THEN [event |-> "none", ls |-> ls, lbp |-> lbp, kind |-> "cooldown"]
    ELSE IF rf # "none"
    THEN [event |-> "none", ls |-> Sampled(ls, v, rf), lbp |-> Now,
          kind |-> "readerror"]
    ELSE LET ev == Decide(Pressed(ls["next"], v["next"]),
                          Pressed(ls["previous"], v["previous"]),
                          Pressed(ls["mode"], v["mode"]))
         IN [event |-> ev, ls |-> v,
             lbp |-> IF ev # "none" THEN Now ELSE lbp, kind |-> "sampled"]

\* variant: the buttons are sampled before the cooldown test
ButtonPressedSamplesFirst(ls, lbp, v, rf) ==
    IF CooldownActive(Now, lbp)
    THEN [event |-> "none", ls |-> v, lbp |-> lbp, kind |-> "cooldown"]
    ELSE IF rf # "none"
    THEN [event |-> "none", ls |-> Sampled(ls, v, rf), lbp |-> lbp,
          kind |-> "readerror"]
    ELSE LET ev == Decide(Pressed(ls["next"], v["next"]),
                          Pressed(ls["previous"], v["previous"]),
                          Pressed(ls["mode"], v["mode"]))
         IN [event |-> ev, ls |-> v,
             lbp |-> IF ev # "none" THEN Now ELSE lbp, kind |-> "sampled"]

\* button_pressed() called at clock reading Now with the buttons at levels v
ButtonPressed(ls, lbp, v, rf) ==
    IF CooldownActive(Now, lbp)
    THEN [event |-> "none", ls |-> ls, lbp |-> lbp, kind |-> "cooldown"]
    ELSE IF rf # "none"
    THEN [event |-> "none", ls |-> Sampled(ls, v, rf), lbp |-> lbp,
          kind |-> "readerror"]
    ELSE LET ev == Decide(Pressed(ls["next"], v["next"]),
                          Pressed(ls["previous"], v["previous"]),
                          Pressed(ls["mode"], v["mode"]))
         IN [event |-> ev, ls |-> v,
             lbp |-> IF ev # "none" THEN Now ELSE lbp, kind |-> "sampled"]

\* the levels a poll can meet: a read that raises, and the reads after it,
\* return no level; a poll inside the cooldown meets any levels and makes
\* no read
PollInputs(lbp) ==
    IF CooldownActive(Now, lbp) THEN Levels \X {"none"}
    ELSE {in \in Levels \X ReadFail :
            \A b \in Buttons : ReadPos(b) >= ReadPos(in[2]) => in[1][b]}

\* the levels found by the last poll that read the buttons, after poll bp
LastRead(before, bp) == IF bp.kind = "cooldown" THEN before ELSE bp.ls

\* what a poll did: its kind, the levels the buttons hold after it, its event
PollRecord(ls, bp) ==
    [kind |-> bp.kind,
     v |-> IF bp.kind = "cooldown" THEN AllHigh ELSE bp.ls,
     edges |-> IF bp.kind = "sampled"
               THEN {b \in Buttons : ls[b] /\ ~bp.ls[b]} ELSE {},
     event |-> bp.event]

----------------------------------------------------------------------------
(* Navigation and mode *)

\* variant: no wrap at the last index
NextIndexNoWrap(i, n) == IF i + 1 < n THEN i + 1 ELSE i

NextIndex(i, n) == (i + 1) % n

\* variant: the remainder takes the sign of the dividend
PreviousIndexTruncated(i, n) == IF i = 0 THEN -1 ELSE i - 1

\* variant: no wrap at index 0
PreviousIndexClamped(i, n) == IF i > 0 THEN i - 1 ELSE 0

PreviousIndex(i, n) == (i - 1) % n

\* variant: every result moves forward
AfterResultForward(r, i, n) == NextIndex(i, n)

\* variant: a failed asset is tried again
AfterResultRetry(r, i, n) ==
    IF r = "next" THEN NextIndex(i, n)
    ELSE IF r = "previous" THEN PreviousIndex(i, n)
    ELSE i

\* the index the main loop moves to after play_gif returned r (r # "mode")
AfterResult(r, i, n) ==
    IF r = "next" THEN NextIndex(i, n)
    ELSE IF r = "previous" THEN PreviousIndex(i, n)
    ELSE NextIndex(i, n)

\* variant: the clock branch acts on next and previous
ClockIndexNavigates(ev, i, n) ==
    IF ev = "next" THEN NextIndex(i, n)
    ELSE IF ev = "previous" THEN PreviousIndex(i, n)
    ELSE i

\* the index after the clock branch met event ev: only "mode" is acted on
ClockIndex(ev, i, n) == i

\* variant: the clock branch switches on any accepted event
ClockSwitchesOnAny(ev) == ev # "none"

\* line 348: the clock branch calls switch_mode() for event ev
ClockSwitches(ev) == ev = "mode"

\* switch_mode(); raises: the assignment to display.root_group raised
SwitchMode(mode, root, raises) ==
    IF mode = "gif"
    THEN [mode |-> "clock", root |-> IF raises THEN root ELSE "clock_group"]
    ELSE [mode |-> "gif", root |-> IF raises THEN root ELSE "main_group"]

\* what the display shows
Visible == IF root_group = "main_group" THEN main_group ELSE "clock"

----------------------------------------------------------------------------
(* Clock display *)

Digit(n) ==
    CASE n = 0 -> "0" [] n = 1 -> "1" [] n = 2 -> "2" [] n = 3 -> "3"
      [] n = 4 -> "4" [] n = 5 -> "5" [] n = 6 -> "6" [] n = 7 -> "7"
      [] n = 8 -> "8" [] n = 9 -> "9"

RECURSIVE Digits(_)
Digits(n) == IF n < 10 THEN <<Digit(n)>>
             ELSE Digits(n \div 10) \o <<Digit(n % 10)>>

\* "{:0wd}".format(n) for n >= 0: at least w digits, padded with zeros
ZeroPad(n, w) ==
    LET ds == Digits(n)
    IN IF Len(ds) >= w THEN ds ELSE [k \in 1..(w - Len(ds)) |-> "0"] \o ds

\* variant: the hour is not mapped from 0 to 12
Hour12Raw(tm_hour) == tm_hour % 12

Hour12(tm_hour) == IF tm_hour % 12 = 0 THEN 12 ELSE tm_hour % 12

Period(tm_hour) == IF tm_hour < 12 THEN <<"A", "M">> ELSE <<"P", "M">>

TimeStr(now) ==
    ZeroPad(Hour12(now.tm_hour), 2) \o <<":">> \o ZeroPad(now.tm_min, 2)
      \o <<":">> \o ZeroPad(now.tm_sec, 2) \o <<" ">> \o Period(now.tm_hour)

DateStr(now) ==
    ZeroPad(now.tm_year, 4) \o <<"-">> \o ZeroPad(now.tm_mon, 2)
      \o <<"-">> \o ZeroPad(now.tm_mday, 2)

\* the labels' texts at construction
InitialTime == <<"0", "0", ":", "0", "0", ":", "0", "0">>
InitialDate == <<"Y", "Y", "Y", "Y", "-", "M", "M", "-", "D", "D">>

NoReading == [tm_year |-> 0, tm_mon |-> 0, tm_mday |-> 0, tm_hour |-> 0,
              tm_min |-> 0, tm_sec |-> 0]

\* the readings of time.localtime() the clock is rendered from
WallTimes ==
    [tm_year : {2024}, tm_mon : {3, 12}, tm_mday : {7, 31},
     tm_hour : 0..23, tm_min : {0, 5, 59}, tm_sec : {0, 9}]

\* the reading met by the clock ticks of the main loop
TickTimes ==
    {[tm_year |-> 2024, tm_mon |-> 3, tm_mday |-> 7, tm_hour |-> 13,
      tm_min |-> 5, tm_sec |-> 9]}

\* update_clock_display(): on an error the labels keep their texts
UpdateClockDisplay(times) ==
    \/ UNCHANGED <<time_label, date_label, rendered>>
    \/ \E now \in times :
        /\ time_label' = TimeStr(now)
        /\ date_label' = DateStr(now)
        /\ rendered' = now

----------------------------------------------------------------------------
(* Frame pacing *)

\* variant: a frame advance one time step early
FrameDueEarly(current_time, start, delay) == current_time - start >= delay - 1

FrameDue(current_time, start, delay) == current_time - start >= delay

NextFrame(k) == (k + 1) % Len(FrameDelays)

DelayOf(k) == FrameDelays[k + 1]

----------------------------------------------------------------------------
(* Initial states *)

TypeOK ==
    /\ pc \in {"start", "idle", "tick", "playing", "returned", "shown",
               "except"}
    /\ gif_count \in 0..MaxAssets
    /\ current_mode \in {"gif", "clock"}
    /\ current_gif_index \in 0..MaxAssets
    /\ last_button_press \in 0..Horizon
    /\ last_state \in Levels
    /\ result \in {"none", "next", "previous", "mode", "error"}
    /\ root_group \in {"main_group", "clock_group"}
    /\ odg \in {"none", "failed", "open"}
    /\ frame \in 0..(Len(FrameDelays) - 1)
    /\ next_delay \in 0..Horizon
    /\ start_time \in 0..Horizon
    /\ since_accept \in 0..Horizon
    /\ accept_gap \in 0..Horizon
    /\ frame_age \in 0..Horizon
    /\ round_trip \in -1..MaxAssets
    /\ came_from \in -1..MaxAssets
    /\ shown_for \in 0..(2 * INTERSTITIAL_TIME + MaxStep)
    /\ wrapped \in BOOLEAN
    /\ seen \in Levels
    /\ went_low \subseteq Buttons

Defaults ==
    /\ current_mode = "gif"
    /\ last_button_press = 0
    /\ result = "none"
    /\ root_group = "main_group"
    /\ main_group = "empty"
    /\ odg = "none"
    /\ frame = 0
    /\ next_delay = 0
    /\ start_time = 0
    /\ time_label = InitialTime
    /\ date_label = InitialDate
    /\ rendered = NoReading
    /\ poll = NoPoll
    /\ since_accept = Horizon
    /\ accept_gap = Horizon
    /\ frame_age = 0
    /\ round_trip = -1
    /\ came_from = -1
    /\ shown_for = 0
    /\ wrapped = FALSE
    /\ went_low = {}
    /\ nav_log = << >>

Init ==
    /\ pc = "start"
    /\ gif_count \in 0..MaxAssets
    /\ current_gif_index = 0
    /\ last_state \in Levels
    /\ seen = last_state
    /\ nav_start = 0
    /\ Defaults

----------------------------------------------------------------------------
(* Actions *)

\* variant: the catalog is not tested for emptiness
StartupUnchecked ==
    /\ pc = "start"
    /\ pc' = "tick"
    /\ last_button_press' = Past(last_button_press, STARTUP_SLEEP)
    /\ poll' = NoPoll
    /\ UNCHANGED <<gif_count, current_mode, current_gif_index, last_state,
                   result, root_group, main_group, odg, frame, next_delay,
                   start_time, since_accept, accept_gap, frame_age,
                   round_trip, nav_start, nav_log>>
    /\ UNCHANGED <<time_label, date_label, rendered>>
    /\ UNCHANGED <<came_from, shown_for, wrapped, seen, went_low>>

\* lines 306-318: the catalog is listed; an empty one shows the error
Startup ==
    /\ pc = "start"
    /\ IF gif_count = 0
       THEN /\ main_group' = "No GIFs in /gifs"
            /\ pc' = "idle"
       ELSE /\ pc' = "tick"
            /\ UNCHANGED main_group
    /\ last_button_press' =
           Past(last_button_press,
                IF gif_count = 0 THEN ERROR_SLEEP ELSE STARTUP_SLEEP)
    /\ poll' = NoPoll
    /\ UNCHANGED <<gif_count, current_mode, current_gif_index, last_state,
                   result, root_group, odg, frame, next_delay, start_time,
                   since_accept, accept_gap, frame_age, round_trip,
                   nav_start, nav_log>>
    /\ UNCHANGED <<time_label, date_label, rendered>>
    /\ UNCHANGED <<came_from, shown_for, wrapped, seen, went_low>>

\* lines 311-312
Idle ==
    /\ pc = "idle"
    /\ UNCHANGED vars

\* lines 322-325 and 253-271: play_gif up to the first frame
PlayOpen ==
    /\ pc = "tick"
    /\ current_mode = "gif"
    /\ \E outcome \in {"openfails", "framefails", "plays"} :
        IF outcome = "openfails"
        THEN /\ odg' = "failed"
             /\ result' = "error"
             /\ pc' = "returned"
             /\ UNCHANGED <<main_group, frame, next_delay, start_time,
                            frame_age>>
        ELSE /\ odg' = "open"
             /\ main_group' = "gif"
             /\ IF outcome = "framefails"
                THEN /\ result' = "error"
                     /\ pc' = "returned"
                     /\ UNCHANGED <<frame, next_delay, start_time, frame_age>>
                ELSE /\ pc' = "playing"
                     /\ frame' = 0
                     /\ next_delay' = DelayOf(0)
                     /\ start_time' = Now
                     /\ frame_age' = 0
                     /\ UNCHANGED result
    /\ poll' = NoPoll
    /\ round_trip' = -1
    /\ UNCHANGED <<gif_count, current_mode, current_gif_index,
                   last_button_press, last_state, root_group, since_accept,
                   accept_gap, nav_start, nav_log>>
    /\ UNCHANGED <<time_label, date_label, rendered>>
    /\ came_from' = -1
    /\ wrapped' = FALSE
    /\ UNCHANGED <<shown_for, seen, went_low>>

\* variant: an error ends the session as if the asset had been played out
PlayReturnsCompleted(r) ==
    /\ result' = IF r = "error" THEN "completed" ELSE r
    /\ wrapped' = FALSE
    /\ pc' = "returned"
    /\ frame' = 0
    /\ next_delay' = 0
    /\ start_time' = 0
    /\ frame_age' = 0

\* lines 290-292 (and 277): play_gif returns r; its locals are gone
PlayReturns(r) ==
    /\ result' = r
    /\ wrapped' = FALSE
    /\ pc' = "returned"
    /\ frame' = 0
    /\ next_delay' = 0
    /\ start_time' = 0
    /\ frame_age' = 0

\* lines 273-284 and 290-292: one iteration of play_gif's loop
PlayIter ==
    /\ pc = "playing"
    /\ \E in \in PollInputs(last_button_press) :
        LET bp == ButtonPressed(last_state, last_button_press, in[1], in[2])
        IN
        /\ last_state' = bp.ls
        /\ seen' = LastRead(seen, bp)
        /\ poll' = PollRecord(last_state, bp)
        /\ IF bp.event # "none"
           THEN /\ PlayReturns(bp.event)
                /\ last_button_press' = bp.lbp
                /\ accept_gap' = since_accept
                /\ since_accept' = 0
           ELSE IF FrameDue(Now, start_time, next_delay)
           THEN \E bad \in BOOLEAN :
                IF bad
                THEN /\ PlayReturns("error")
                     /\ last_button_press' = bp.lbp
                     /\ UNCHANGED <<accept_gap, since_accept>>
                ELSE /\ start_time' = Now
                     /\ frame' = NextFrame(frame)
                     /\ next_delay' = DelayOf(NextFrame(frame))
                     /\ frame_age' = 0
                     /\ wrapped' = (wrapped \/ NextFrame(frame) = 0)
                     /\ last_button_press' = bp.lbp
                     /\ UNCHANGED <<result, pc, accept_gap, since_accept>>
           ELSE \E d \in 0..MaxStep :
                /\ last_button_press' = Past(bp.lbp, d)
                /\ start_time' = Past(start_time, d)
                /\ since_accept' = Older(since_accept, d)
                /\ frame_age' = Older(frame_age, d)
                /\ UNCHANGED <<result, pc, frame, next_delay, accept_gap,
                               wrapped>>
    /\ UNCHANGED <<gif_count, current_mode, current_gif_index, root_group,
                   main_group, odg, round_trip, nav_start, nav_log>>
    /\ UNCHANGED <<time_label, date_label, rendered>>
    /\ UNCHANGED <<came_from, shown_for, went_low>>

\* how long show_interstitial takes on each of its paths: the filler is
\* played until 2.0 have passed (lines 174-184), a missing filler is
\* replaced by the text and its sleep(2.0) (lines 155-158, 205), and an
\* error after some time of playing is followed by the text and its
\* sleep(2.0) (lines 189-192)
InterstitialTimes(path) ==
    IF path = "played"
    THEN {INTERSTITIAL_TIME + slack : slack \in 0..MaxStep}
    ELSE IF path = "missing" THEN {INTERSTITIAL_TIME}
    ELSE {played + INTERSTITIAL_TIME : played \in 0..(INTERSTITIAL_TIME - 1)}

\* lines 328, 332, 338 and 148-205: show_interstitial on each of its paths
ShowInterstitial ==
    /\ pc = "returned"
    /\ result # "mode"
    /\ \E path \in {"played", "missing", "failed"} :
        /\ main_group' = IF path = "played" THEN "interstitial"
                         ELSE "Please wait..."
        /\ shown_for' \in InterstitialTimes(path)
    /\ last_button_press' = Past(last_button_press, shown_for')
    /\ since_accept' = Older(since_accept, shown_for')
    /\ pc' = "shown"
    /\ poll' = NoPoll
    /\ UNCHANGED <<gif_count, current_mode, current_gif_index,
                   last_state, result, root_group, odg, frame,
                   next_delay, start_time, accept_gap,
                   frame_age, round_trip, nav_start, nav_log>>
    /\ UNCHANGED <<time_label, date_label, rendered, came_from, wrapped,
                   seen, went_low>>

\* lines 329, 333, 339
Advance ==
    /\ pc = "shown"
    /\ current_gif_index' = AfterResult(result, current_gif_index, gif_count)
    /\ pc' = "tick"
    /\ poll' = NoPoll
    /\ UNCHANGED <<gif_count, current_mode, last_button_press,
                   last_state, result, root_group, main_group, odg,
                   frame, next_delay, start_time, since_accept, accept_gap, frame_age, round_trip,
                   nav_start, nav_log>>
    /\ UNCHANGED <<time_label, date_label, rendered>>
    /\ came_from' = current_gif_index
    /\ shown_for' = 0
    /\ UNCHANGED <<wrapped, seen, went_low>>

\* lines 335-336 and 134-145
SwitchFromPlayback ==
    /\ pc = "returned"
    /\ result = "mode"
    /\ \E raises \in BOOLEAN :
        LET sm == SwitchMode(current_mode, root_group, raises) IN
        /\ current_mode' = sm.mode
        /\ root_group' = sm.root
        /\ pc' = IF raises THEN "except" ELSE "tick"
        /\ round_trip' = IF raises THEN round_trip ELSE current_gif_index
        /\ IF raises THEN UNCHANGED <<time_label, date_label, rendered>>
           ELSE UpdateClockDisplay(TickTimes)
    /\ poll' = NoPoll
    /\ UNCHANGED <<gif_count, current_gif_index, last_button_press,
                   last_state, result, main_group, odg, frame,
                   next_delay, start_time, since_accept,
                   accept_gap, frame_age, nav_start, nav_log>>
    /\ UNCHANGED <<came_from, shown_for, wrapped, seen, went_low>>

\* lines 341-349: one tick of the clock mode
ClockTick ==
    /\ pc = "tick"
    /\ current_mode = "clock"
    /\ UpdateClockDisplay(TickTimes)
    /\ \/ /\ pc' = "except"
          /\ poll' = NoPoll
          /\ UNCHANGED <<current_mode, root_group, last_button_press,
                         last_state, seen, since_accept, accept_gap,
                         current_gif_index>>
       \/ \E d \in 0..MaxStep :
          LET lbp == Past(last_button_press, CLOCK_SLEEP + d)
              age == Older(since_accept, CLOCK_SLEEP + d)
          IN \E in \in PollInputs(lbp) :
             LET bp == ButtonPressed(last_state, lbp, in[1], in[2]) IN
             /\ last_state' = bp.ls
             /\ seen' = LastRead(seen, bp)
             /\ last_button_press' = bp.lbp
             /\ poll' = PollRecord(last_state, bp)
             /\ IF bp.event # "none"
                THEN accept_gap' = age /\ since_accept' = 0
                ELSE accept_gap' = accept_gap /\ since_accept' = age
             /\ current_gif_index' =
                    ClockIndex(bp.event, current_gif_index, gif_count)
             /\ IF ClockSwitches(bp.event)
                THEN \E raises \in BOOLEAN :
                     LET sm == SwitchMode(current_mode, root_group, raises)
                     IN /\ current_mode' = sm.mode
                        /\ root_group' = sm.root
                        /\ pc' = IF raises THEN "except" ELSE "tick"
                ELSE /\ pc' = "tick"
                     /\ UNCHANGED <<current_mode, root_group>>
    /\ came_from' = -1
    /\ UNCHANGED <<gif_count, result, main_group, odg, frame, next_delay,
                   start_time, frame_age, round_trip, shown_for, wrapped,
                   went_low,
                   nav_start, nav_log>>

\* lines 351-354 and 294-303
FatalHandler ==
    /\ pc = "except"
    /\ main_group' = "Fatal error, resetting"
    /\ last_button_press' = Past(last_button_press, ERROR_SLEEP)
    /\ since_accept' = Older(since_accept, ERROR_SLEEP)
    /\ current_gif_index' = 0
    /\ pc' = "tick"
    /\ poll' = NoPoll
    /\ round_trip' = -1
    /\ UNCHANGED <<gif_count, current_mode, last_state, result,
                   root_group, odg, frame, next_delay, start_time,
                   accept_gap, frame_age, nav_start, nav_log>>
    /\ UNCHANGED <<time_label, date_label, rendered>>
    /\ came_from' = current_gif_index
    /\ UNCHANGED <<shown_for, wrapped, seen, went_low>>

Next ==
    \/ Startup
    \/ Idle
    \/ PlayOpen
    \/ PlayIter
    \/ ShowInterstitial
    \/ Advance
    \/ SwitchFromPlayback
    \/ ClockTick
    \/ FatalHandler

Spec == Init /\ [][Next]_vars

\* the steps that wait for nothing: once reached, the single thread of
\* control carries them out (a playback session or a clock tick, which
\* depend on the buttons and the clock, need no fairness)
StraightLine ==
    \/ Startup
    \/ PlayOpen
    \/ ShowInterstitial
    \/ Advance
    \/ SwitchFromPlayback
    \/ FatalHandler

LiveSpec == Init /\ [][Next]_vars /\ WF_vars(StraightLine)

----------------------------------------------------------------------------
(* Index arithmetic on its own: accepted navigations applied one after the *)
(* other from any start index of any non-empty catalog.                    *)

NavInit ==
    /\ pc = "shown"
    /\ gif_count \in 1..MaxAssets
    /\ nav_start \in 0..(gif_count - 1)
    /\ current_gif_index = nav_start
    /\ last_state = AllHigh
    /\ seen = last_state
    /\ Defaults

\* lines 327-334: the index update of a session ended by "next"/"previous"
Navigate ==
    /\ pc = "shown"
    /\ Len(nav_log) < MaxNav
    /\ \E r \in {"next", "previous"} :
        /\ result' = r
        /\ current_gif_index' = AfterResult(r, current_gif_index, gif_count)
        /\ nav_log' = Append(nav_log, r)
    /\ UNCHANGED <<pc, gif_count, current_mode, last_button_press,
                   last_state, root_group, main_group, odg, frame,
                   next_delay, start_time, poll, since_accept, accept_gap,
                   frame_age, round_trip, nav_start>>
    /\ UNCHANGED <<time_label, date_label, rendered>>
    /\ UNCHANGED <<came_from, shown_for, wrapped, seen, went_low>>

NavNext == Navigate

NavSpec == NavInit /\ [][NavNext]_vars

----------------------------------------------------------------------------
(* The clock rendering on its own, for every hour of the day.              *)

ClockInit ==
    /\ pc = "tick"
    /\ gif_count = 1
    /\ current_gif_index = 0
    /\ last_state = AllHigh
    /\ seen = last_state
    /\ nav_start = 0
    /\ Defaults

\* lines 114-132
ClockRender ==
    /\ UpdateClockDisplay(WallTimes)
    /\ UNCHANGED <<pc, gif_count, current_mode, current_gif_index,
                   last_button_press, last_state, result, root_group,
                   main_group, odg, frame, next_delay, start_time, poll,
                   since_accept, accept_gap, frame_age, round_trip,
                   nav_start, nav_log>>
    /\ UNCHANGED <<came_from, shown_for, wrapped, seen, went_low>>

ClockNext == ClockRender

ClockSpec == ClockInit /\ [][ClockNext]_vars

----------------------------------------------------------------------------
(* The button source alone: polls separated by gaps in which nothing reads
   the buttons *)

\* the time between two polls: the loop's short sleeps, or a whole
\* interstitial (lines 178, 205)
PollGaps == (0..MaxStep) \cup {INTERSTITIAL_TIME}

PollInit ==
    /\ pc = "tick"
    /\ gif_count = 1
    /\ current_gif_index = 0
    /\ last_state = AllHigh
    /\ seen = last_state
    /\ nav_start = 0
    /\ Defaults

\* lines 208-236 and 57-63: a gap of length d in which the buttons of
\* pressed go LOW, and then a call of button_pressed(); a button read LOW
\* that was HIGH when last read went LOW in between
PollAfterGap ==
    /\ \E d \in PollGaps, pressed \in SUBSET Buttons :
        LET lbp == Past(last_button_press, d)
            age == Older(since_accept, d)
            low == (IF poll.kind = "sampled" THEN {} ELSE went_low)
                       \cup pressed
        IN \E in \in PollInputs(lbp) :
            LET bp == ButtonPressed(last_state, lbp, in[1], in[2]) IN
            /\ \A b \in Buttons : (seen[b] /\ ~in[1][b]) => b \in low
            /\ last_state' = bp.ls
            /\ seen' = LastRead(seen, bp)
            /\ last_button_press' = bp.lbp
            /\ poll' = PollRecord(last_state, bp)
            /\ went_low' = IF bp.kind = "readerror"
                           THEN {b \in low : ReadPos(b) >= ReadPos(in[2])}
                           ELSE low
            /\ shown_for' = IF d >= INTERSTITIAL_TIME THEN d ELSE 0
            /\ IF bp.event # "none"
               THEN accept_gap' = age /\ since_accept' = 0
               ELSE accept_gap' = accept_gap /\ since_accept' = age
    /\ UNCHANGED <<pc, gif_count, current_mode, current_gif_index, result,
                   root_group, main_group, odg, frame, next_delay,
                   start_time, time_label, date_label, rendered, frame_age,
                   round_trip, came_from, wrapped, nav_start, nav_log>>

PollNext == PollAfterGap

PollSpec == PollInit /\ [][PollNext]_vars

----------------------------------------------------------------------------
(* Claims *)

\* C1: any two accepted button events are at least BUTTON_COOLDOWN apart,
\* whichever buttons produced them and whatever the poll times were.
CooldownSeparatesEvents == accept_gap >= BUTTON_COOLDOWN

\* two accepted events exactly one cooldown apart
CooldownSeparatesEventsWitness ==
    /\ poll.event # "none"
    /\ accept_gap = BUTTON_COOLDOWN

\* C2: in a poll outside the cooldown, a falling edge on mode is reported
\* as "mode" whatever next and previous show; next and previous together
\* (without mode) report nothing; next alone "next", previous alone
\* "previous".
ModeHasPriority ==
    [][poll'.kind = "sampled" =>
        LET fell(b) == last_state[b] = TRUE /\ poll'.v[b] = FALSE
        IN poll'.event =
             IF fell("mode") THEN "mode"
             ELSE IF fell("next") /\ fell("previous") THEN "none"
             ELSE IF fell("next") THEN "next"
             ELSE IF fell("previous") THEN "previous"
             ELSE "none"]_vars

\* all three buttons fell in one poll and "mode" was reported
ModeHasPriorityWitness ==
    /\ poll.kind = "sampled"
    /\ poll.edges = {"next", "previous", "mode"}
    /\ poll.event = "mode"

\* C3: a failed open of the asset at index k in Playback mode makes
\* play_gif return the failure result; the interstitial is shown, the index
\* becomes (k+1) mod N, the mode stays Playback and the next tick starts.
OpenFailureAdvances ==
    [][/\ (pc = "tick" /\ current_mode = "gif" /\ odg' = "failed") =>
            /\ pc' = "returned"
            /\ result' = "error"
            /\ UNCHANGED <<current_gif_index, current_mode>>
       /\ (pc = "returned" /\ odg = "failed") =>
            /\ result = "error"
            /\ pc' = "shown"
            /\ main_group' \in {"interstitial", "Please wait..."}
            /\ UNCHANGED <<current_gif_index, current_mode, result, odg>>
       /\ (pc = "shown" /\ odg = "failed") =>
            /\ pc' = "tick"
            /\ current_mode' = "gif"
            /\ current_gif_index' = (current_gif_index + 1) % gif_count
      ]_vars

\* the last asset of three failed to open and the loop is back at index 0
OpenFailureAdvancesWitness ==
    /\ pc = "tick"
    /\ gif_count = 3
    /\ odg = "failed"
    /\ result = "error"
    /\ current_gif_index = 0
    /\ current_mode = "gif"
    /\ main_group \in {"interstitial", "Please wait..."}

\* C4: after an uncaught error in a tick the error message is shown, the
\* index is 0 and the loop continues in Playback mode.
ErrorResetsToPlayback ==
    [][pc = "except" =>
        /\ current_gif_index' = 0
        /\ current_mode' = "gif"
        /\ Visible' = "Fatal error, resetting"]_vars

\* C5: a session that opened the decoder has released it when play_gif
\* returns, whether a button event or a decode error ended it.
SessionReleasesDecoder == pc = "returned" => odg # "open"

\* C6: from Playback at index i, a switch to Clock, any clock ticks with
\* any button activity and a switch back resume Playback at index i.
RoundTripKeepsIndex == round_trip # -1 => current_gif_index = round_trip

\* Playback resumed at index 2 by a poll in which mode and next both fell
RoundTripKeepsIndexWitness ==
    /\ pc = "tick"
    /\ current_mode = "gif"
    /\ round_trip = 2
    /\ poll.event = "mode"
    /\ "next" \in poll.edges

\* C7: N accepted "next" navigations return the index to where it was, so
\* do N "previous" ones, and so does a "next" followed by a "previous" or
\* the reverse, at the wrap points too.
AllAre(log, r) == \A k \in 1..Len(log) : log[k] = r

NavigationIsCyclic ==
    /\ (Len(nav_log) = gif_count /\ AllAre(nav_log, "next"))
          => current_gif_index = nav_start
    /\ (Len(nav_log) = gif_count /\ AllAre(nav_log, "previous"))
          => current_gif_index = nav_start
    /\ (Len(nav_log) = 2 /\ nav_log[1] # nav_log[2])
          => current_gif_index = nav_start

\* three "previous" navigations from index 0 of three assets
NavigationIsCyclicWitness ==
    /\ gif_count = 3
    /\ nav_start = 0
    /\ nav_log = <<"previous", "previous", "previous">>
    /\ current_gif_index = 0

\* C8: with an empty catalog the error is shown once and the program
\* idles: no poll, no session, no mode or index change ever follows.
EmptyCatalogIdles ==
    [][gif_count = 0 =>
        /\ pc' = "idle"
        /\ pc = "start" =>
              /\ main_group' = "No GIFs in /gifs"
              /\ poll' = NoPoll
              /\ UNCHANGED <<current_mode, current_gif_index, last_state,
                             result, odg, root_group>>
        /\ pc = "idle" => UNCHANGED vars]_vars

EmptyCatalogIdlesWitness ==
    /\ gif_count = 0
    /\ pc = "idle"
    /\ Visible = "No GIFs in /gifs"

\* C9: with a non-empty catalog control always returns to the top of the
\* loop after a session's result, an interstitial or an uncaught error,
\* and when no asset ever opens the index visits every index forever.
LoopNeverHalts ==
    /\ (gif_count > 0 /\ pc \in {"start", "returned", "shown", "except"})
          ~> (pc = "tick")
    /\ [](odg # "open") =>
          \A j \in 0..(MaxAssets - 1) :
             []<>(j < gif_count => (pc = "tick" /\ current_gif_index = j))

\* the loop is at its top again after the handler of an uncaught error
LoopNeverHaltsWitness ==
    /\ pc = "tick"
    /\ gif_count > 0
    /\ main_group = "Fatal error, resetting"

\* C10: with no button event, frames are requested in order, frame k+1
\* only once at least the delay of frame k has passed since frame k was
\* requested, and the frame-start timestamp is reset at each advance.
FramesArePaced ==
    [][(pc = "playing" /\ pc' = "playing" /\ frame' # frame) =>
        /\ frame_age >= DelayOf(frame)
        /\ frame' = (frame + 1) % Len(FrameDelays)
        /\ start_time' = Now
        /\ next_delay' = DelayOf(frame')
        /\ poll'.event = "none"]_vars

\* the third frame has just been requested
FramesArePacedWitness ==
    /\ pc = "playing"
    /\ frame = 2
    /\ frame_age = 0
    /\ start_time = Now

\* C11: the hour shown is 12 when h mod 12 = 0 and h mod 12 otherwise, so
\* always in 1..12, with AM exactly when h < 12 and PM otherwise;
\* 13:05:09 on 2024-03-07 reads "01:05:09 PM" and "2024-03-07", and
\* 00:00:00 reads hour "12" with "AM".
DigitValue(c) == CHOOSE n \in 0..9 : Digit(n) = c

ShownHour == 10 * DigitValue(time_label[1]) + DigitValue(time_label[2])

ClockShowsTwelveHourTime ==
    rendered # NoReading =>
        /\ Len(time_label) = 11
        /\ ShownHour \in 1..12
        /\ ShownHour = IF rendered.tm_hour \in {0, 12} THEN 12
                       ELSE IF rendered.tm_hour < 12 THEN rendered.tm_hour
                       ELSE rendered.tm_hour - 12
        /\ SubSeq(time_label, 10, 11) =
              IF rendered.tm_hour < 12 THEN <<"A", "M">> ELSE <<"P", "M">>
        /\ (rendered.tm_hour = 13 /\ rendered.tm_min = 5
              /\ rendered.tm_sec = 9) =>
              time_label = <<"0", "1", ":", "0", "5", ":", "0", "9", " ",
                             "P", "M">>
        /\ (rendered.tm_year = 2024 /\ rendered.tm_mon = 3
              /\ rendered.tm_mday = 7) =>
              date_label = <<"2", "0", "2", "4", "-", "0", "3", "-", "0",
                             "7">>
        /\ (rendered.tm_hour = 0 /\ rendered.tm_min = 0
              /\ rendered.tm_sec = 0) =>
              time_label = <<"1", "2", ":", "0", "0", ":", "0", "0", " ",
                             "A", "M">>

\* midnight has been rendered
ClockShowsTwelveHourTimeWitness ==
    /\ rendered.tm_hour = 0
    /\ rendered.tm_year = 2024
    /\ SubSeq(time_label, 1, 2) = <<"1", "2">>
    /\ SubSeq(time_label, 10, 11) = <<"A", "M">>

\* C12: the mode changes only on an accepted "mode" event: a step that
\* changes current_mode is the poll that returned "mode" or the return of
\* the session that poll ended; in clock mode an accepted "next" or
\* "previous" leaves the mode; no error path changes the mode.
ModeChangesOnModeEventOnly ==
    [][/\ current_mode' # current_mode =>
            \/ poll'.event = "mode"
            \/ pc = "returned" /\ result = "mode" /\ poll.event = "mode"
       /\ (current_mode = "clock" /\ poll'.event \in {"next", "previous"}) =>
            current_mode' = "clock"
       /\ pc = "except" => current_mode' = current_mode
       /\ (pc' = "except" /\ poll'.event # "mode" /\ result # "mode") =>
            current_mode' = current_mode]_vars

\* the clock has just been left on an accepted "mode" event
ModeChangesOnModeEventOnlyWitness ==
    /\ pc = "tick"
    /\ current_mode = "gif"
    /\ root_group = "main_group"
    /\ poll.kind = "sampled"
    /\ poll.event = "mode"

\* C13: in playback mode a session ended by "next" or "previous" is
\* followed by exactly one interstitial, shown in full with the index and
\* the mode untouched, and only then by the index moving one position,
\* forward resp. backward modulo N; the mode stays "gif" throughout, and
\* the index moves nowhere else but in the error handler.
NavigationShowsInterstitialFirst ==
    [][/\ (pc = "returned" /\ result \in {"next", "previous"}) =>
            /\ pc' = "shown"
            /\ shown_for' >= INTERSTITIAL_TIME
            /\ main_group' \in {"interstitial", "Please wait..."}
            /\ current_gif_index' = current_gif_index
            /\ current_mode = "gif" /\ current_mode' = "gif"
       /\ (pc = "shown" /\ result = "next") =>
            /\ pc' = "tick"
            /\ current_gif_index' = (current_gif_index + 1) % gif_count
            /\ current_mode = "gif" /\ current_mode' = "gif"
       /\ (pc = "shown" /\ result = "previous") =>
            /\ pc' = "tick"
            /\ current_gif_index' =
                   (current_gif_index + gif_count - 1) % gif_count
            /\ current_mode = "gif" /\ current_mode' = "gif"
       /\ pc' = "shown" => pc = "returned"
       /\ current_gif_index' # current_gif_index =>
            pc \in {"shown", "except"}]_vars

\* "previous" has just moved the index from 2 to 1, after the filler
NavigationShowsInterstitialFirstWitness ==
    /\ pc = "tick"
    /\ current_mode = "gif"
    /\ result = "previous"
    /\ main_group = "interstitial"
    /\ came_from = 2
    /\ current_gif_index = 1

\* C14: with a non-empty catalog of N assets the index is always in
\* 0..N-1, whatever sequence of next, previous, mode, failed assets and
\* top-level errors led to the state.
IndexStaysInCatalog ==
    gif_count > 0 => current_gif_index \in 0..(gif_count - 1)

\* "previous" at index 0 has just wrapped to the last asset
IndexStaysInCatalogWitness ==
    /\ pc = "tick"
    /\ gif_count = MaxAssets
    /\ result = "previous"
    /\ came_from = 0
    /\ current_gif_index = gif_count - 1

\* C15: a playback session ends only by an accepted button event or by an
\* error: a step of a running session either stays in the session or
\* returns the event its poll accepted or "error"; the index and the mode
\* do not change while it runs, the frames start over after the last one,
\* and play_gif's result is one of next, previous, mode and error.
SessionEndsOnEventOrError ==
    [][/\ pc = "playing" =>
            /\ pc' \in {"playing", "returned"}
            /\ current_gif_index' = current_gif_index
            /\ current_mode' = current_mode
            /\ pc' = "returned" =>
                 \/ /\ poll'.kind = "sampled"
                    /\ poll'.event \in {"next", "previous", "mode"}
                    /\ result' = poll'.event
                 \/ /\ poll'.event = "none"
                    /\ result' = "error"
            /\ (pc' = "playing" /\ frame' # frame) =>
                 frame' = (frame + 1) % Len(FrameDelays)
       /\ pc' = "returned" =>
            result' \in {"next", "previous", "mode", "error"}]_vars

\* the session plays on after its last frame: the first frame was requested
\* again and the poll that followed accepted nothing
SessionEndsOnEventOrErrorWitness ==
    /\ pc = "playing"
    /\ wrapped
    /\ frame = 0
    /\ poll.kind = "sampled"
    /\ poll.event = "none"
    /\ result # "error"

\* C16: a poll made less than BUTTON_COOLDOWN after the last accepted event
\* returns no event and leaves every button's stored previous level and
\* the last-accepted timestamp as they were, whatever the levels are.
CooldownPollTouchesNothing ==
    [][(pc = "playing" /\ poll'.kind # "nopoll"
            /\ since_accept < BUTTON_COOLDOWN) =>
        /\ poll'.kind = "cooldown"
        /\ poll'.event = "none"
        /\ pc' = "returned" => result' = "error"
        /\ last_state' = last_state
        /\ since_accept' >= since_accept
        /\ last_button_press' = Now - since_accept']_vars

\* a poll inside the cooldown, some time after the accepted press, with the
\* pressed button's stored level still LOW
CooldownPollTouchesNothingWitness ==
    /\ pc = "playing"
    /\ poll.kind = "cooldown"
    /\ since_accept = BUTTON_COOLDOWN - 1
    /\ \E b \in Buttons : ~last_state[b]

\* C17: no auto-repeat: a button's event is returned only by a poll that
\* found its stored level HIGH and its current level LOW; while the stored
\* level is LOW no poll returns that button's event, and the stored level
\* goes back to HIGH only in a poll that reads the button.
HeldButtonDoesNotRepeat ==
    [][\A b \in Buttons :
        /\ poll'.event = b =>
             /\ last_state[b] = TRUE
             /\ poll'.v[b] = FALSE
             /\ last_state'[b] = FALSE
        /\ last_state[b] = FALSE => poll'.event # b
        /\ last_state'[b] # last_state[b] =>
             poll'.kind \in {"sampled", "readerror"}]_vars

\* "next" was LOW at the poll before and is LOW at this one: no event
HeldButtonDoesNotRepeatWitness ==
    /\ poll.kind = "sampled"
    /\ poll.v = [b \in Buttons |-> b # "next"]
    /\ poll.edges = {}
    /\ poll.event = "none"

\* C18: show_interstitial samples no button, accepts no event and changes
\* neither the index, the mode nor the cooldown timestamp, and it returns
\* after about INTERSTITIAL_TIME (at most one loop step more) on each of
\* its paths.  The last part fails: an error met after the filler has
\* played for a while is followed by the full text fallback.
InterstitialTakesTwoUnits ==
    [][(pc = "returned" /\ pc' = "shown") =>
        /\ poll' = NoPoll
        /\ last_state' = last_state
        /\ current_gif_index' = current_gif_index
        /\ current_mode' = current_mode
        /\ last_button_press' = Past(last_button_press, shown_for')
        /\ accept_gap' = accept_gap
        /\ shown_for' >= INTERSTITIAL_TIME
        /\ shown_for' <= INTERSTITIAL_TIME + MaxStep]_vars

\* C19: a poll in which the read of a button raises returns no event, lets
\* no exception reach its caller and leaves the last-accepted timestamp
\* where it was; the poll after it is not held back by the cooldown and
\* decides by the usual rule on the levels it reads.
ReadFailureIsNoEvent ==
    [][/\ poll'.kind = "readerror" =>
            /\ poll'.event = "none"
            /\ pc' # "except"
            /\ pc' = "returned" => result' = "error"
            /\ since_accept' >= since_accept
            /\ last_button_press' = Now - since_accept'
            /\ accept_gap' = accept_gap
       /\ (poll.kind = "readerror" /\ poll'.kind # "nopoll") =>
            /\ poll'.kind # "cooldown"
            /\ poll'.kind = "sampled" =>
                 poll'.event =
                    Decide(last_state["next"] /\ ~poll'.v["next"],
                           last_state["previous"] /\ ~poll'.v["previous"],
                           last_state["mode"] /\ ~poll'.v["mode"])]_vars

\* the read of a button raised after next had been read LOW, and the
\* session goes on
ReadFailureIsNoEventWitness ==
    /\ pc = "playing"
    /\ poll.kind = "readerror"
    /\ poll.event = "none"
    /\ ~last_state["next"]

\* the gap before the poll of this step lies in the cooldown window or is an
\* interstitial
GapIsUnsampled ==
    since_accept < BUTTON_COOLDOWN \/ shown_for' >= INTERSTITIAL_TIME

\* C20 as stated: a button that went LOW during the cooldown window or an
\* interstitial and is LOW at the first poll that reads the buttons is
\* reported by that poll; one that is HIGH again by then is not reported.
LatchedPressIsReported ==
    [][\A b \in Buttons :
        (GapIsUnsampled /\ poll'.kind = "sampled" /\ b \in went_low') =>
            IF poll'.v[b] = FALSE THEN poll'.event = b
            ELSE poll'.event # b]_vars

\* no button but b was read LOW after having been read HIGH
OnlyFell(b) ==
    \A c \in Buttons \ {b} : ~(seen[c] /\ poll'.v[c] = FALSE)

\* C20, amended: the press is reported if the button was HIGH when last
\* read and, for next and previous, no other button fell as well; mode is
\* reported whatever else fell. The accepted press restarts the cooldown.
\* A press made and released inside the gap is never reported.
LatchedPressIsReportedIfLastReadHigh ==
    [][\A b \in Buttons :
        (GapIsUnsampled /\ poll'.kind = "sampled" /\ b \in went_low') =>
            /\ (poll'.v[b] = FALSE /\ seen[b]
                  /\ (b = "mode" \/ OnlyFell(b))) =>
                 /\ poll'.event = b
                 /\ since_accept' = 0
                 /\ last_button_press' = Now
            /\ poll'.v[b] = TRUE => poll'.event # b]_vars

\* next went LOW inside the cooldown window and is reported by the poll
\* made when the cooldown expires
LatchedPressIsReportedIfLastReadHighWitness ==
    /\ poll.kind = "sampled"
    /\ poll.event = "next"
    /\ "next" \in went_low
    /\ shown_for = 0
    /\ accept_gap = BUTTON_COOLDOWN

=============================================================================
